---- MODULE Spec2Model ----
(***************************************************************************)
(* A binary search tree of numeric keys with opaque values (src/BST.js,    *)
(* the class with add/getValue/update/delete/balance).  The tree is a heap *)
(* of node objects; `root` is the object the caller invokes methods on.    *)
(***************************************************************************)
EXTENDS Integers, Sequences, FiniteSets, TLC

\* ---------------------------------------------------------------- bounds
\* Keys are the numbers 1..MaxKey.
MaxKey == 4

Keys == 1..MaxKey

\* ---------------------------------------------------------------- values
\* JavaScript values a node may hold or a call may return.
Undefined == "undefined"
Null == "null"

\* Values a caller passes as the second argument of new BST(key, value);
\* Undefined is also what the parameter holds when the argument is omitted.
CtorArgs == {Undefined, "a"}

\* Values a caller passes as newValue to update(key, newValue).
UpdateArgs == {Undefined}

\* ---------------------------------------------------------------- errors
NoError == "none"
DuplicateKey == "is not a unique key."
RootOnly == "Deleting root node when no other nodes exist is undefined."

\* Reading a property of null or undefined.
TypeError == "TypeError"

\* ---------------------------------------------------------------- heap
\* The null reference.
NULL == 0

\* Room for a tree on every key, a balanced copy of it, and one node under
\* construction.
HeapSize == 2 * MaxKey + 1

Cells == 1..HeapSize

\* A cell that holds no object.
FreeCell == [key |-> 0, value |-> Null, left |-> NULL, right |-> NULL]

EmptyHeap == [c \in Cells |-> FreeCell]

FreeCells(h) == {c \in Cells : h[c] = FreeCell}

\* The cells reachable from the references in S (closed under left/right).
RECURSIVE ReachFrom(_, _)
ReachFrom(h, S) ==
    LET R == S \ {NULL}
        T == (R \cup {h[n].left : n \in R} \cup {h[n].right : n \in R}) \ {NULL}
    IN  IF T = R THEN R ELSE ReachFrom(h, T)

\* Numbers the cells reachable from n in pre-order, continuing the numbering
\* st = [num, count]: num[c] is the number of cell c, or 0 if it has none.
RECURSIVE Preorder(_, _, _)
Preorder(h, n, st) ==
    IF n = NULL \/ st.num[n] # 0
    THEN st
    ELSE LET here == [num |-> [st.num EXCEPT ![n] = st.count + 1], count |-> st.count + 1]
         IN  Preorder(h, h[n].right, Preorder(h, h[n].left, here))

\* The heap acc with every numbered cell c >= the given one moved to num[c].
RECURSIVE Renumber(_, _, _, _)
Renumber(acc, h, num, c) ==
    IF c > HeapSize
    THEN acc
    ELSE IF num[c] = 0
         THEN Renumber(acc, h, num, c + 1)
         ELSE Renumber([acc EXCEPT ![num[c]] = [key   |-> h[c].key,
                                                value |-> h[c].value,
                                                left  |-> num[h[c].left],
                                                right |-> num[h[c].right]]],
                       h, num, c + 1)

\* Objects have no observable address: the heap is kept up to renaming of
\* its cells, the objects reachable from r first (in pre-order), then those
\* reachable from b.  Unreachable objects are collected.
Normalize(h, r, b) ==
    LET none == [num |-> [n \in {NULL} \cup Cells |-> 0], count |-> 0]
        st == Preorder(h, b, Preorder(h, r, none))
    IN  [heap |-> Renumber(EmptyHeap, h, st.num, 1),
         root |-> st.num[r],
         bal  |-> st.num[b]]

\* ---------------------------------------------------------------- constructor
\* The default parameter value=null: an omitted or undefined argument
\* becomes null.
DefaultValue(value) == IF value = Undefined THEN Null ELSE value

\* new BST(key, value): a fresh object with null children.
Constructor(h, key, value) ==
    LET c == CHOOSE x \in FreeCells(h) : \A y \in FreeCells(h) : x <= y
    IN  [heap |-> [h EXCEPT ![c] = [key   |-> key,
                                    value |-> DefaultValue(value),
                                    left  |-> NULL,
                                    right |-> NULL]],
         node |-> c]

\* ---------------------------------------------------------------- add
\* add without the uniqueness check: an equal key is taken as a larger one.
RECURSIVE AddLoop_NoUniqueCheck(_, _, _)
AddLoop_NoUniqueCheck(h, curr, node) ==
    IF h[node].key < h[curr].key
    THEN IF h[curr].left = NULL
         THEN [heap |-> [h EXCEPT ![curr].left = node], thrown |-> NoError]
         ELSE AddLoop_NoUniqueCheck(h, h[curr].left, node)
    ELSE IF h[curr].right = NULL
         THEN [heap |-> [h EXCEPT ![curr].right = node], thrown |-> NoError]
         ELSE AddLoop_NoUniqueCheck(h, h[curr].right, node)

\* The while(!done) loop of add, from curr.
RECURSIVE AddLoop(_, _, _)
AddLoop(h, curr, node) ==
    IF h[curr].key = h[node].key
    THEN [heap |-> h, thrown |-> DuplicateKey]
    ELSE IF h[node].key < h[curr].key
         THEN IF h[curr].left = NULL
              THEN [heap |-> [h EXCEPT ![curr].left = node], thrown |-> NoError]
              ELSE AddLoop(h, h[curr].left, node)
         ELSE IF h[curr].right = NULL
              THEN [heap |-> [h EXCEPT ![curr].right = node], thrown |-> NoError]
              ELSE AddLoop(h, h[curr].right, node)

add(h, this, node) == AddLoop(h, this, node)

\* ---------------------------------------------------------------- push
\* push checking uniqueness against the root only: below it an equal key is
\* taken as a larger one.
push_RootCheckOnly(h, this, node) ==
    IF h[this].key = h[node].key
    THEN [heap |-> h, thrown |-> DuplicateKey]
    ELSE AddLoop_NoUniqueCheck(h, this, node)

\* push(node) of the first class: the recursive insertion.  The type
\* validation does not reject a constructed node.
RECURSIVE push(_, _, _)
push(h, this, node) ==
    IF h[this].key = h[node].key
    THEN [heap |-> h, thrown |-> DuplicateKey]
    ELSE IF h[node].key < h[this].key
         THEN IF h[this].left = NULL
              THEN [heap |-> [h EXCEPT ![this].left = node], thrown |-> NoError]
              ELSE push(h, h[this].left, node)
         ELSE IF h[this].right = NULL
              THEN [heap |-> [h EXCEPT ![this].right = node], thrown |-> NoError]
              ELSE push(h, h[this].right, node)

\* ---------------------------------------------------------------- getValue
RECURSIVE getValue(_, _, _)
getValue(h, curr, key) ==
    IF h[curr].key = key
    THEN h[curr].value
    ELSE IF key < h[curr].key
         THEN IF h[curr].left = NULL THEN Undefined
              ELSE getValue(h, h[curr].left, key)
         ELSE IF h[curr].right = NULL THEN Undefined
              ELSE getValue(h, h[curr].right, key)

\* ---------------------------------------------------------------- update
\* update returning the value it has just stored instead of the old one.
RECURSIVE update_ReturnsNew(_, _, _, _)
update_ReturnsNew(h, curr, key, newValue) ==
    IF h[curr].key = key
    THEN [heap |-> [h EXCEPT ![curr].value = newValue], ret |-> newValue]
    ELSE IF key < h[curr].key
         THEN IF h[curr].left = NULL THEN [heap |-> h, ret |-> Undefined]
              ELSE update_ReturnsNew(h, h[curr].left, key, newValue)
         ELSE IF h[curr].right = NULL THEN [heap |-> h, ret |-> Undefined]
              ELSE update_ReturnsNew(h, h[curr].right, key, newValue)

RECURSIVE update(_, _, _, _)
update(h, curr, key, newValue) ==
    IF h[curr].key = key
    THEN [heap |-> [h EXCEPT ![curr].value = newValue], ret |-> h[curr].value]
    ELSE IF key < h[curr].key
         THEN IF h[curr].left = NULL THEN [heap |-> h, ret |-> Undefined]
              ELSE update(h, h[curr].left, key, newValue)
         ELSE IF h[curr].right = NULL THEN [heap |-> h, ret |-> Undefined]
              ELSE update(h, h[curr].right, key, newValue)

\* ---------------------------------------------------------------- exports
RECURSIVE toArrayHelper(_, _)
toArrayHelper(h, curr) ==
    (IF h[curr].left # NULL THEN toArrayHelper(h, h[curr].left) ELSE <<>>)
    \o <<h[curr].value>>
    \o (IF h[curr].right # NULL THEN toArrayHelper(h, h[curr].right) ELSE <<>>)

toArray(h, this) == toArrayHelper(h, this)

\* toKVArray's helper pushing the node before its left subtree.
RECURSIVE toKVArrayHelper_SelfFirst(_, _)
toKVArrayHelper_SelfFirst(h, curr) ==
    <<[key |-> h[curr].key, value |-> h[curr].value]>>
    \o (IF h[curr].left # NULL THEN toKVArrayHelper_SelfFirst(h, h[curr].left) ELSE <<>>)
    \o (IF h[curr].right # NULL THEN toKVArrayHelper_SelfFirst(h, h[curr].right) ELSE <<>>)

RECURSIVE toKVArrayHelper(_, _)
toKVArrayHelper(h, curr) ==
    (IF h[curr].left # NULL THEN toKVArrayHelper(h, h[curr].left) ELSE <<>>)
    \o <<[key |-> h[curr].key, value |-> h[curr].value]>>
    \o (IF h[curr].right # NULL THEN toKVArrayHelper(h, h[curr].right) ELSE <<>>)

toKVArray(h, this) == toKVArrayHelper(h, this)

RECURSIVE getKeyHelper(_, _)
getKeyHelper(h, curr) ==
    (IF h[curr].left # NULL THEN getKeyHelper(h, h[curr].left) ELSE <<>>)
    \o <<h[curr].key>>
    \o (IF h[curr].right # NULL THEN getKeyHelper(h, h[curr].right) ELSE <<>>)

getKeys(h, this) == getKeyHelper(h, this)

\* ---------------------------------------------------------------- delete
\* The search loop of delete inside try/catch.  Reading match.key with match
\* null raises a TypeError, which the catch turns into `return null`.
RECURSIVE FindMatch(_, _, _, _)
FindMatch(h, matchParent, match, key) ==
    IF match = NULL
    THEN [found |-> FALSE, matchParent |-> matchParent, match |-> match]
    ELSE IF h[match].key = key
         THEN [found |-> TRUE, matchParent |-> matchParent, match |-> match]
         ELSE FindMatch(h, match,
                        IF key < h[match].key THEN h[match].left ELSE h[match].right,
                        key)

\* The loop that finds the in-order successor and its parent.
RECURSIVE FindSuccessor(_, _, _)
FindSuccessor(h, successorParent, successor) ==
    IF h[successor].left = NULL
    THEN [successorParent |-> successorParent, successor |-> successor]
    ELSE FindSuccessor(h, successor, h[successor].left)

\* { key: n.key, value: n.value }
Pair(h, n) == [key |-> h[n].key, value |-> h[n].value]

\* Case 1 without the refusal to delete a root that has no child: the pair
\* is returned and nothing is removed.
DeleteCase1_NoThrow(h, matchParent, match) ==
    LET successor == IF h[match].left = NULL THEN h[match].right ELSE h[match].left
    IN  IF matchParent = NULL
        THEN IF successor = NULL
             THEN [heap |-> h, thrown |-> NoError, ret |-> <<Pair(h, match)>>]
             ELSE LET h1 == [h EXCEPT ![match].key   = h[successor].key,
                                      ![match].value = h[successor].value,
                                      ![match].left  = h[successor].left,
                                      ![match].right = h[successor].right]
                  IN  [heap |-> h1, thrown |-> NoError, ret |-> <<Pair(h1, match)>>]
        ELSE LET h1 == IF h[match].key < h[matchParent].key
                       THEN [h EXCEPT ![matchParent].left = successor]
                       ELSE [h EXCEPT ![matchParent].right = successor]
             IN  [heap |-> h1, thrown |-> NoError, ret |-> <<Pair(h1, match)>>]

\* Case 1 with the relation between match and matchParent the wrong way
\* round.
DeleteCase1_WrongSide(h, matchParent, match) ==
    LET successor == IF h[match].left = NULL THEN h[match].right ELSE h[match].left
    IN  IF matchParent = NULL
        THEN IF successor = NULL
             THEN [heap |-> h, thrown |-> RootOnly, ret |-> <<>>]
             ELSE LET h1 == [h EXCEPT ![match].key   = h[successor].key,
                                      ![match].value = h[successor].value,
                                      ![match].left  = h[successor].left,
                                      ![match].right = h[successor].right]
                  IN  [heap |-> h1, thrown |-> NoError, ret |-> <<Pair(h1, match)>>]
        ELSE LET h1 == IF h[match].key < h[matchParent].key
                       THEN [h EXCEPT ![matchParent].right = successor]
                       ELSE [h EXCEPT ![matchParent].left = successor]
             IN  [heap |-> h1, thrown |-> NoError, ret |-> <<Pair(h1, match)>>]

\* Case 1 of delete: at least one child of match is null.  ret is <<>> for
\* no value returned and <<pair>> for a returned object.
DeleteCase1(h, matchParent, match) ==
    LET successor == IF h[match].left = NULL THEN h[match].right ELSE h[match].left
    IN  IF matchParent = NULL
        THEN IF successor = NULL
             THEN [heap |-> h, thrown |-> RootOnly, ret |-> <<>>]
             ELSE LET h1 == [h EXCEPT ![match].key   = h[successor].key,
                                      ![match].value = h[successor].value,
                                      ![match].left  = h[successor].left,
                                      ![match].right = h[successor].right]
                  IN  [heap |-> h1, thrown |-> NoError, ret |-> <<Pair(h1, match)>>]
        ELSE LET h1 == IF h[match].key < h[matchParent].key
                       THEN [h EXCEPT ![matchParent].left = successor]
                       ELSE [h EXCEPT ![matchParent].right = successor]
             IN  [heap |-> h1, thrown |-> NoError, ret |-> <<Pair(h1, match)>>]

\* Case 2 that copies the successor into match but leaves the successor
\* linked where it was.
DeleteCase2_KeepsSuccessor(h, match) ==
    LET s == FindSuccessor(h, NULL, h[match].right)
        matchData == Pair(h, match)
        h2 == [h EXCEPT ![match].key   = h[s.successor].key,
                        ![match].value = h[s.successor].value]
    IN  [heap |-> h2, thrown |-> NoError, ret |-> <<matchData>>]

\* Case 2 that replaces match's key by the successor's but not its value.
DeleteCase2_KeyOnly(h, match) ==
    LET s == FindSuccessor(h, NULL, h[match].right)
        matchData == Pair(h, match)
        h1 == IF s.successorParent = NULL
              THEN [h EXCEPT ![match].right = h[s.successor].right]
              ELSE [h EXCEPT ![s.successorParent].left = h[s.successor].right]
        h2 == [h1 EXCEPT ![match].key = h1[s.successor].key]
    IN  [heap |-> h2, thrown |-> NoError, ret |-> <<matchData>>]

\* Case 2 that cuts a deeper successor off with its right subtree: the
\* successor's parent gets null instead of successor.right.
DeleteCase2_CutsSubtree(h, match) ==
    LET s == FindSuccessor(h, NULL, h[match].right)
        matchData == Pair(h, match)
        h1 == IF s.successorParent = NULL
              THEN [h EXCEPT ![match].right = h[s.successor].right]
              ELSE [h EXCEPT ![s.successorParent].left = NULL]
        h2 == [h1 EXCEPT ![match].key   = h1[s.successor].key,
                         ![match].value = h1[s.successor].value]
    IN  [heap |-> h2, thrown |-> NoError, ret |-> <<matchData>>]

\* Case 2 of delete: match has both children.
DeleteCase2(h, match) ==
    LET s == FindSuccessor(h, NULL, h[match].right)
        matchData == Pair(h, match)
        h1 == IF s.successorParent = NULL
              THEN [h EXCEPT ![match].right = h[s.successor].right]
              ELSE [h EXCEPT ![s.successorParent].left = h[s.successor].right]
        h2 == [h1 EXCEPT ![match].key   = h1[s.successor].key,
                         ![match].value = h1[s.successor].value]
    IN  [heap |-> h2, thrown |-> NoError, ret |-> <<matchData>>]

\* delete without the try/catch around the search: the TypeError of reading
\* null.key reaches the caller.
delete_NoCatch(h, this, key) ==
    LET f == FindMatch(h, NULL, this, key)
    IN  IF ~f.found
        THEN [heap |-> h, thrown |-> TypeError, ret |-> <<>>]
        ELSE IF h[f.match].left = NULL \/ h[f.match].right = NULL
             THEN DeleteCase1(h, f.matchParent, f.match)
             ELSE DeleteCase2(h, f.match)

delete(h, this, key) ==
    LET f == FindMatch(h, NULL, this, key)
    IN  IF ~f.found
        THEN [heap |-> h, thrown |-> NoError, ret |-> <<>>]
        ELSE IF h[f.match].left = NULL \/ h[f.match].right = NULL
             THEN DeleteCase1(h, f.matchParent, f.match)
             ELSE DeleteCase2(h, f.match)

\* ---------------------------------------------------------------- balance
\* sorted is the 0-based JavaScript array, held as a 1-based sequence.
RECURSIVE balanceHelper(_, _, _, _)
balanceHelper(h, sorted, first, last) ==
    IF first > last
    THEN [heap |-> h, node |-> NULL]
    ELSE LET m == ((last - first) + 1) \div 2 + first
             n == Constructor(h, sorted[m + 1].key, sorted[m + 1].value)
             l == balanceHelper(n.heap, sorted, first, m - 1)
             r == balanceHelper(l.heap, sorted, m + 1, last)
         IN  [heap |-> [r.heap EXCEPT ![n.node].left = l.node,
                                      ![n.node].right = r.node],
              node |-> n.node]

\* balance handing back the tree itself when it is a single node, already
\* balanced, instead of a copy.
balance_NoCopyOfLeaf(h, this) ==
    LET sorted == toKVArray(h, this)
    IN  IF Len(sorted) = 1
        THEN [heap |-> h, node |-> this]
        ELSE balanceHelper(h, sorted, 0, Len(sorted) - 1)

balance(h, this) ==
    LET sorted == toKVArray(h, this)
    IN  balanceHelper(h, sorted, 0, Len(sorted) - 1)

\* ---------------------------------------------------------------- state
VARIABLES
    heap,    \* the objects
    root,    \* the tree the caller holds and calls methods on
    bal,     \* a second tree the caller holds, or NULL: the tree balance()
             \* returned, if the last call was balance(); under SpecPush the
             \* tree of the first class, built with push
    call,    \* the last call: its name and arguments
    thrown,  \* the error the last call raised, or NoError
    ret,     \* what the last call returned
    pre,     \* the heap as it was when the last call began
    assoc,   \* per key, the value last given to it by new/add/update, if the
             \* key has not been deleted since
    undo     \* after delete(k) that directly follows a successful add of k:
             \* <<[kv, value]>>, toKVArray() before that add and the value
             \* added; <<>> after every other call

vars == <<heap, root, bal, call, thrown, ret, pre, assoc, undo>>

NoValue == "none"

\* A call's results, by the kind of value returned: val for a plain value,
\* pair for delete's object (<<>> is null), kv/keys/vals for the arrays.
NoRet == [val |-> Undefined, pair |-> <<>>, kv |-> <<>>, keys |-> <<>>, vals |-> <<>>]

\* The caller lets go of a balanced copy before the next call.
Dropped == IF bal = NULL THEN heap ELSE Normalize(heap, root, NULL).heap

\* The value argument the caller constructs the node of key k with: odd keys
\* get "a", even keys get none.
KeyArg(k) == IF k % 2 = 1 THEN "a" ELSE Undefined

\* root = new BST(k, v)
New(k, v) ==
    LET c == Constructor(EmptyHeap, k, v)
        z == Normalize(c.heap, c.node, NULL)
    IN  /\ heap = z.heap
        /\ root = z.root
        /\ bal = NULL
        /\ call = [op |-> "new", key |-> k, value |-> z.heap[z.root].value]
        /\ thrown = NoError
        /\ ret = NoRet
        /\ pre = z.heap
        /\ assoc = [x \in Keys |-> IF x = k THEN z.heap[z.root].value ELSE NoValue]
        /\ undo = <<>>

Init == \E k \in Keys : New(k, KeyArg(k))

\* root.add(new BST(k, v))
Add(k, v) ==
    LET d == Dropped
        c == Constructor(d, k, v)
        r == add(c.heap, root, c.node)
        z == Normalize(r.heap, root, NULL)
        value == c.heap[c.node].value
    IN  /\ heap' = z.heap
        /\ root' = z.root
        /\ bal' = NULL
        /\ call' = [op |-> "add", key |-> k, value |-> value]
        /\ thrown' = r.thrown
        /\ ret' = NoRet
        /\ pre' = d
        /\ assoc' = IF r.thrown = NoError THEN [assoc EXCEPT ![k] = value] ELSE assoc
        /\ undo' = <<>>

\* root.delete(k)
Delete(k) ==
    LET d == Dropped
        r == delete(d, root, k)
        z == Normalize(r.heap, root, NULL)
    IN  /\ heap' = z.heap
        /\ root' = z.root
        /\ bal' = NULL
        /\ call' = [op |-> "delete", key |-> k, value |-> Undefined]
        /\ thrown' = r.thrown
        /\ ret' = [NoRet EXCEPT !.pair = r.ret]
        /\ pre' = d
        /\ assoc' = IF r.thrown = NoError THEN [assoc EXCEPT ![k] = NoValue] ELSE assoc
        /\ undo' = IF call.op = "add" /\ thrown = NoError /\ call.key = k
                   THEN <<[kv |-> toKVArray(pre, root), value |-> call.value]>>
                   ELSE <<>>

\* root.getValue(k)
GetValue(k) ==
    LET d == Dropped
    IN  /\ heap' = d
        /\ UNCHANGED <<root, assoc>>
        /\ bal' = NULL
        /\ call' = [op |-> "getValue", key |-> k, value |-> Undefined]
        /\ thrown' = NoError
        /\ ret' = [NoRet EXCEPT !.val = getValue(d, root, k)]
        /\ pre' = d
        /\ undo' = <<>>

\* root.update(k, v)
Update(k, v) ==
    LET d == Dropped
        r == update(d, root, k, v)
    IN  /\ heap' = r.heap
        /\ UNCHANGED root
        /\ bal' = NULL
        /\ call' = [op |-> "update", key |-> k, value |-> v]
        /\ thrown' = NoError
        /\ ret' = [NoRet EXCEPT !.val = r.ret]
        /\ pre' = d
        /\ assoc' = IF assoc[k] # NoValue THEN [assoc EXCEPT ![k] = v] ELSE assoc
        /\ undo' = <<>>

\* A call that only reads the tree and returns r.
Read(op, r) ==
    LET d == Dropped
    IN  /\ heap' = d
        /\ UNCHANGED <<root, assoc>>
        /\ bal' = NULL
        /\ call' = [op |-> op, key |-> 0, value |-> Undefined]
        /\ thrown' = NoError
        /\ ret' = r
        /\ pre' = d
        /\ undo' = <<>>

\* root.toKVArray()
ToKVArray == Read("toKVArray", [NoRet EXCEPT !.kv = toKVArray(Dropped, root)])

\* root.getKeys()
GetKeys == Read("getKeys", [NoRet EXCEPT !.keys = getKeys(Dropped, root)])

\* root.toArray()
ToArray == Read("toArray", [NoRet EXCEPT !.vals = toArray(Dropped, root)])

\* root.balance()
Balance ==
    LET d == Dropped
        r == balance(d, root)
        z == Normalize(r.heap, root, r.node)
    IN  /\ heap' = z.heap
        /\ root' = z.root
        /\ bal' = z.bal
        /\ UNCHANGED assoc
        /\ call' = [op |-> "balance", key |-> 0, value |-> Undefined]
        /\ thrown' = NoError
        /\ ret' = NoRet
        /\ pre' = d
        /\ undo' = <<>>

Next ==
    \/ \E k \in Keys : Add(k, KeyArg(k))
    \/ \E k \in Keys : Delete(k)
    \/ \E k \in Keys : GetValue(k)
    \/ \E k \in Keys, v \in UpdateArgs : Update(k, v)
    \/ ToKVArray
    \/ GetKeys
    \/ ToArray
    \/ Balance

\* Every operation, in any order, on a tree whose nodes are constructed with
\* the value KeyArg gives their key.
Spec == Init /\ [][Next]_vars

\* Trees built by insertion alone, with either constructor argument for
\* every key, and exported.
InitBuild == \E k \in Keys, v \in CtorArgs : New(k, v)

NextBuild ==
    \/ \E k \in Keys, v \in CtorArgs : Add(k, v)
    \/ ToKVArray
    \/ GetKeys
    \/ ToArray

SpecBuild == InitBuild /\ [][NextBuild]_vars

\* The caller keeps both the tree and the copy balance() returned, and calls
\* method (add, update or delete) with key k on one of them: on = "root" is
\* the original tree, on = "bal" the copy.  call.bal is the copy's root object
\* in pre.
Later(on, method, k) ==
    LET this == IF on = "root" THEN root ELSE bal
        c == Constructor(heap, k, KeyArg(k))
        r == CASE method = "add" -> add(c.heap, this, c.node)
               [] method = "update" -> [heap |-> update(heap, this, k, Undefined).heap,
                                        thrown |-> NoError]
               [] method = "delete" -> delete(heap, this, k)
        z == Normalize(r.heap, root, bal)
        changed == on = "root" /\ r.thrown = NoError
    IN  /\ bal # NULL
        /\ call.op = "balance"
        /\ heap' = z.heap
        /\ root' = z.root
        /\ bal' = z.bal
        /\ call' = [op |-> "later", on |-> on, method |-> method, key |-> k,
                    value |-> Undefined, bal |-> bal]
        /\ thrown' = r.thrown
        /\ ret' = NoRet
        /\ pre' = heap
        /\ assoc' = CASE changed /\ method = "add" -> [assoc EXCEPT ![k] = c.heap[c.node].value]
                      [] changed /\ method = "update" /\ assoc[k] # NoValue ->
                             [assoc EXCEPT ![k] = Undefined]
                      [] changed /\ method = "delete" -> [assoc EXCEPT ![k] = NoValue]
                      [] OTHER -> assoc
        /\ undo' = <<>>

Methods == {"add", "update", "delete"}

NextPure ==
    \/ call.op # "later" /\ \E k \in Keys : Add(k, KeyArg(k))
    \/ call.op # "later" /\ Balance
    \/ \E method \in Methods, k \in Keys : Later("root", method, k)
    \/ \E method \in Methods, k \in Keys : Later("bal", method, k)

\* A tree built by insertion and balanced, then one call of add, update or
\* delete on the tree or on the copy while the caller holds both.
SpecPure == Init /\ [][NextPure]_vars

\* The scenario: keys 5, 3, 8, 1, 4, 7, 9 inserted in this order with the
\* values "v5", "v3", "v8", "v1", "v4", "v7", "v9".
ScenarioInserts == <<5, 3, 8, 1, 4, 7, 9>>

ScenarioKeys == {ScenarioInserts[i] : i \in 1..Len(ScenarioInserts)}

ScenarioValue(k) ==
    CASE k = 1 -> "v1" [] k = 3 -> "v3" [] k = 4 -> "v4" [] k = 5 -> "v5"
      [] k = 7 -> "v7" [] k = 8 -> "v8" [] k = 9 -> "v9"

\* The heap after root = new BST(5, "v5") and root.add(new BST(k, v)) for
\* the inserts from the i-th on; the root is the object r.
RECURSIVE ScenarioBuild(_, _, _)
ScenarioBuild(h, r, i) ==
    IF i > Len(ScenarioInserts)
    THEN h
    ELSE LET c == Constructor(h, ScenarioInserts[i], ScenarioValue(ScenarioInserts[i]))
         IN  ScenarioBuild(add(c.heap, r, c.node).heap, r, i + 1)

ScenarioTree ==
    LET c == Constructor(EmptyHeap, ScenarioInserts[1], ScenarioValue(ScenarioInserts[1]))
    IN  Normalize(ScenarioBuild(c.heap, c.node, 2), c.node, NULL)

InitScenario == New(ScenarioInserts[1], ScenarioValue(ScenarioInserts[1]))

NextScenario ==
    \/ \E k \in ScenarioKeys : Add(k, ScenarioValue(k))
    \/ \E k \in ScenarioKeys : Delete(k)
    \/ GetKeys

\* The scenario's keys with the scenario's values, inserted and deleted in
\* any order from the root of key 5.
SpecScenario == InitScenario /\ [][NextScenario]_vars

\* root = new BST(k, v) of the second class and bal = new BST(k, v) of the
\* first.
InitPush ==
    \E k \in Keys :
        LET v == KeyArg(k)
            a == Constructor(EmptyHeap, k, v)
            b == Constructor(a.heap, k, v)
        IN  /\ heap = b.heap
            /\ root = a.node
            /\ bal = b.node
            /\ call = [op |-> "new", key |-> k, value |-> a.heap[a.node].value]
            /\ thrown = NoError
            /\ ret = NoRet
            /\ pre = b.heap
            /\ assoc = [x \in Keys |-> IF x = k THEN a.heap[a.node].value ELSE NoValue]
            /\ undo = <<>>

\* root.add(new BST(k, v)), then bal.push(new BST(k, v)).  call.pushed is the
\* error push raised; thrown is add's.
AddAndPush(k, v) ==
    LET c == Constructor(heap, k, v)
        r == add(c.heap, root, c.node)
        y == Normalize(r.heap, root, bal)
        cp == Constructor(y.heap, k, v)
        rp == push(cp.heap, y.bal, cp.node)
        z == Normalize(rp.heap, y.root, y.bal)
        value == c.heap[c.node].value
    IN  /\ heap' = z.heap
        /\ root' = z.root
        /\ bal' = z.bal
        /\ call' = [op |-> "add+push", key |-> k, value |-> value, pushed |-> rp.thrown]
        /\ thrown' = r.thrown
        /\ ret' = NoRet
        /\ pre' = heap
        /\ assoc' = IF r.thrown = NoError THEN [assoc EXCEPT ![k] = value] ELSE assoc
        /\ undo' = <<>>

NextPush == \E k \in Keys : AddAndPush(k, KeyArg(k))

\* The same sequence of insertions applied with add to one tree and with
\* push to another, from the same root key and value.
SpecPush == InitPush /\ [][NextPush]_vars

\* ---------------------------------------------------------------- reading a tree
\* The objects of the tree whose root object is r.
TreeCells(h, r) == ReachFrom(h, {r})

\* The keys held by the tree's objects.
TreeKeys(h, r) == {h[c].key : c \in TreeCells(h, r)}

\* The value held by the object of key k (for k in TreeKeys).
ValueAt(h, r, k) == h[CHOOSE c \in TreeCells(h, r) : h[c].key = k].value

\* The tree below n up to the identity of its objects: key, value, left
\* subtree, right subtree.
RECURSIVE Shape(_, _)
Shape(h, n) ==
    IF n = NULL
    THEN <<>>
    ELSE <<h[n].key, h[n].value, Shape(h, h[n].left), Shape(h, h[n].right)>>

\* Invariant I1: below every object, smaller keys to the left and larger
\* keys to the right.
Ordered(h, r) ==
    \A c \in TreeCells(h, r) :
        /\ \A x \in ReachFrom(h, {h[c].left}) : h[x].key < h[c].key
        /\ \A x \in ReachFrom(h, {h[c].right}) : h[x].key > h[c].key

StrictlyAscending(s) == \A i \in 1..(Len(s) - 1) : s[i] < s[i + 1]

\* The pairs (k, f[k]) of the keys k >= from that f gives a value, ascending.
RECURSIVE PairsFrom(_, _)
PairsFrom(f, from) ==
    IF from > MaxKey
    THEN <<>>
    ELSE (IF f[from] # NoValue THEN <<[key |-> from, value |-> f[from]]>> ELSE <<>>)
         \o PairsFrom(f, from + 1)

SortedPairs(f) == PairsFrom(f, 1)

\* ---------------------------------------------------------------- C1
\* C1: after any sequence of calls, getKeys() is strictly ascending (so no
\* key occurs twice) and every object has only smaller keys in its left
\* subtree and only larger keys in its right subtree.
C1_OrderingPreserved ==
    /\ StrictlyAscending(getKeys(heap, root))
    /\ Ordered(heap, root)

\* A delete that removed a node with two children whose successor was not
\* its right child.
C1_Witness ==
    /\ call.op = "delete"
    /\ ret.pair # <<>>
    /\ \E c \in TreeCells(pre, root) :
        /\ pre[c].key = call.key
        /\ pre[c].left # NULL
        /\ pre[c].right # NULL
        /\ pre[pre[c].right].left # NULL

\* ---------------------------------------------------------------- C2
\* C2: delete(k) of a key k held with value v, when it returns, returns
\* exactly {key: k, value: v}, whatever the children of k's node and also
\* when that node is the root.
C2_DeleteReturnsMatch ==
    (call.op = "delete" /\ thrown = NoError /\ call.key \in TreeKeys(pre, root))
        => ret.pair = <<[key |-> call.key, value |-> ValueAt(pre, root, call.key)]>>

\* ---------------------------------------------------------------- C3
\* The last call was delete(k) on a tree that was the root alone, holding k.
SoleRootDelete ==
    /\ call.op = "delete"
    /\ TreeCells(pre, root) = {root}
    /\ pre[root].key = call.key

\* C3 as claimed: deleting the only node returns its pair without raising
\* and leaves a tree that holds no keys.
C3_SoleRootRemoved ==
    SoleRootDelete =>
        /\ thrown = NoError
        /\ ret.pair = <<Pair(pre, root)>>
        /\ TreeKeys(heap, root) \cap Keys = {}

\* C3 as the code has it: deleting the only node raises "Deleting root node
\* when no other nodes exist is undefined.", returns nothing and leaves the
\* tree as it was, still holding k with its value.
C3_SoleRootRefused ==
    SoleRootDelete =>
        /\ thrown = RootOnly
        /\ ret.pair = <<>>
        /\ heap = pre

C3_Witness == SoleRootDelete /\ pre[root].value = "a"

\* ---------------------------------------------------------------- C4
\* C4: add of a node whose key is already in the tree, at any depth, raises
\* the duplicate-key error and leaves every object as it was.
C4_DuplicateRejected ==
    (call.op = "add" /\ call.key \in TreeKeys(pre, root))
        => /\ thrown = DuplicateKey
           /\ heap = pre
           /\ toKVArray(heap, root) = toKVArray(pre, root)

\* A duplicate of a key held below the root's children, offered with a
\* value other than the one the tree holds for it.
C4_Witness ==
    /\ call.op = "add"
    /\ thrown = DuplicateKey
    /\ \E c \in TreeCells(pre, root) \ {root, pre[root].left, pre[root].right} :
        /\ pre[c].key = call.key
        /\ pre[c].value # call.value

\* ---------------------------------------------------------------- C5
\* C5: delete(k) right after a successful add of a node (k, v) returns
\* {key: k, value: v} and leaves toKVArray() as it was before the add.
C5_InsertThenDelete ==
    (call.op = "delete" /\ undo # <<>>)
        => /\ thrown = NoError
           /\ ret.pair = <<[key |-> call.key, value |-> undo[1].value]>>
           /\ toKVArray(heap, root) = undo[1].kv

C5_Witness ==
    /\ call.op = "delete"
    /\ undo # <<>>
    /\ Len(undo[1].kv) >= 3

\* ---------------------------------------------------------------- C6
\* C6: on a tree built by insertion, in any order, toKVArray() returns
\* exactly the inserted pairs, each once, ascending by key; getKeys() and
\* toArray() return the keys and the values of that sequence position by
\* position; none of the three changes the tree.
C6_RoundTrip ==
    LET inserted == SortedPairs(assoc)
    IN  /\ call.op = "toKVArray" =>
            (ret.kv = inserted /\ heap = pre)
        /\ call.op = "getKeys" =>
            (ret.keys = [i \in 1..Len(inserted) |-> inserted[i].key] /\ heap = pre)
        /\ call.op = "toArray" =>
            (ret.vals = [i \in 1..Len(inserted) |-> inserted[i].value] /\ heap = pre)

\* An export of a tree of four nodes whose root was not the smallest or
\* the largest key inserted.
C6_Witness ==
    /\ call.op = "toKVArray"
    /\ Len(ret.kv) >= 4
    /\ heap[root].left # NULL
    /\ heap[root].right # NULL

\* ---------------------------------------------------------------- C7
\* C7: getValue(k) raises nothing, leaves the tree as it was, and returns
\* the value last given to k by new/add/update if k is in the tree and
\* undefined if it is not.
C7_GetValueAgrees ==
    call.op = "getValue" =>
        /\ thrown = NoError
        /\ heap = pre
        /\ ret.val = IF call.key \in TreeKeys(heap, root)
                     THEN assoc[call.key]
                     ELSE Undefined

\* A lookup of a key held below the root, found with the value "a".
C7_Witness ==
    /\ call.op = "getValue"
    /\ call.key \in TreeKeys(heap, root)
    /\ call.key # heap[root].key
    /\ ret.val = "a"

\* ---------------------------------------------------------------- C8
\* C8: update(k, newValue) on a key in the tree stores newValue in k's
\* node and returns the node's previous value; on a key not in the tree it
\* returns undefined.  Every key and every left/right link stay as they
\* were, and so does the value of every other node.
C8_UpdateFrame ==
    call.op = "update" =>
        /\ thrown = NoError
        /\ IF call.key \in TreeKeys(pre, root)
           THEN /\ ret.val = ValueAt(pre, root, call.key)
                /\ \A c \in Cells :
                    heap[c] = IF pre[c].key = call.key
                              THEN [pre[c] EXCEPT !.value = call.value]
                              ELSE pre[c]
           ELSE /\ ret.val = Undefined
                /\ heap = pre

\* An update of a node below the root, in a tree of at least three nodes,
\* that replaced the value "a".
C8_Witness ==
    /\ call.op = "update"
    /\ call.key \in TreeKeys(pre, root)
    /\ call.key # pre[root].key
    /\ Cardinality(TreeCells(pre, root)) >= 3
    /\ ret.val = "a"
    /\ ValueAt(heap, root, call.key) = Undefined

\* ---------------------------------------------------------------- C9
\* C9: what getValue(k) returns, and the old value update(k, x) returns, for
\* a key k in the tree differs from what the same call returns for any key
\* that is not in the tree.
C9_NotFoundDistinct ==
    /\ (call.op = "getValue" /\ call.key \in TreeKeys(pre, root)) =>
            \A k \in Keys \ TreeKeys(pre, root) : ret.val # getValue(pre, root, k)
    /\ (call.op = "update" /\ call.key \in TreeKeys(pre, root)) =>
            \A k \in Keys \ TreeKeys(pre, root) :
                ret.val # update(pre, root, k, call.value).ret

\* ---------------------------------------------------------------- C10
\* The number of nodes on the longest path from n down to a leaf.
RECURSIVE Height(_, _)
Height(h, n) ==
    IF n = NULL
    THEN 0
    ELSE LET l == Height(h, h[n].left)
             r == Height(h, h[n].right)
         IN  1 + (IF l > r THEN l ELSE r)

\* ceil(log2(x)) for x >= 1, as the least e >= from with 2^e >= x.
RECURSIVE CeilLog2From(_, _)
CeilLog2From(x, from) == IF 2 ^ from >= x THEN from ELSE CeilLog2From(x, from + 1)

CeilLog2(x) == CeilLog2From(x, 0)

\* C10: balance() returns a tree of height ceil(log2(n+1)) for a tree of n
\* nodes, whose toKVArray() is that of the tree it was called on.
C10_BalancedSamePairs ==
    call.op = "balance" =>
        /\ Height(heap, bal) = CeilLog2(Cardinality(TreeCells(heap, root)) + 1)
        /\ toKVArray(heap, bal) = toKVArray(heap, root)

\* ---------------------------------------------------------------- C12
\* C12: delete(k) of a key that is not in the tree returns null, raises
\* nothing and leaves every object as it was.
C12_DeleteNotFound ==
    (call.op = "delete" /\ ~(call.key \in TreeKeys(pre, root)))
        => /\ thrown = NoError
           /\ ret.pair = <<>>
           /\ heap = pre

\* A delete whose search left the tree below a child of the root.
C12_Witness ==
    /\ call.op = "delete"
    /\ ~(call.key \in TreeKeys(pre, root))
    /\ Cardinality(TreeCells(pre, root)) >= 3
    /\ \/ (call.key < pre[root].key /\ pre[root].left # NULL)
       \/ (call.key > pre[root].key /\ pre[root].right # NULL)

\* ---------------------------------------------------------------- C11
\* C11: balance() leaves every object of the original tree as it was (key,
\* value, left, right) and returns a tree made only of objects created by
\* the call, none of them an object of the original; a later add, update or
\* delete on one of the two trees leaves the other as it was.
C11_BalancePure ==
    /\ call.op = "balance" =>
           /\ \A c \in TreeCells(pre, root) : heap[c] = pre[c]
           /\ \A c \in TreeCells(heap, bal) : pre[c] = FreeCell
           /\ TreeCells(heap, bal) \cap TreeCells(heap, root) = {}
    /\ (call.op = "later" /\ call.on = "bal") =>
           /\ \A c \in TreeCells(pre, root) : heap[c] = pre[c]
           /\ TreeCells(heap, bal) \cap TreeCells(heap, root) = {}
    /\ (call.op = "later" /\ call.on = "root") =>
           /\ Shape(heap, bal) = Shape(pre, call.bal)
           /\ TreeCells(heap, bal) \cap TreeCells(heap, root) = {}

\* A call that changed one of two trees of three or more objects.
C11_Witness ==
    /\ call.op = "later"
    /\ thrown = NoError
    /\ Cardinality(TreeCells(pre, root)) >= 3
    /\ Shape(heap, root) # Shape(heap, bal)
    /\ \/ call.on = "root" /\ Shape(heap, root) # Shape(pre, root)
       \/ call.on = "bal" /\ Shape(heap, bal) # Shape(pre, call.bal)

\* ---------------------------------------------------------------- C13
\* The object of key k in the tree, and the object whose child c is.
NodeOf(h, r, k) == CHOOSE c \in TreeCells(h, r) : h[c].key = k

ParentOf(h, r, c) == CHOOSE p \in TreeCells(h, r) : h[p].left = c \/ h[p].right = c

\* The object with the smallest key of the tree below n.
Smallest(h, n) ==
    CHOOSE c \in ReachFrom(h, {n}) : \A x \in ReachFrom(h, {n}) : h[c].key <= h[x].key

\* C13: deleting the key of a node with both children puts the in-order
\* successor's key and value at the target's position, above the target's
\* former left subtree and the rest of its right subtree; the successor's
\* right subtree takes the successor's former place; every object other
\* than the target, the successor and the successor's parent keeps key,
\* value, left and right.  In the tree built by inserting 5, 3, 8, 1, 4, 7,
\* 9, delete(5) leaves 7 at the root and getKeys() = [1,3,4,7,8,9].
C13_SuccessorTakesPlace ==
    (/\ call.op = "delete"
     /\ call.key \in TreeKeys(pre, root)
     /\ pre[NodeOf(pre, root, call.key)].left # NULL
     /\ pre[NodeOf(pre, root, call.key)].right # NULL)
    => LET target == NodeOf(pre, root, call.key)
           successor == Smallest(pre, pre[target].right)
           successorParent == ParentOf(pre, root, successor)
           after == delete(pre, root, call.key).heap
       IN  /\ thrown = NoError
           /\ heap = Normalize(after, root, NULL).heap
           /\ after[target].key = pre[successor].key
           /\ after[target].value = pre[successor].value
           /\ after[target].left = pre[target].left
           /\ IF successorParent = target
              THEN after[target].right = pre[successor].right
              ELSE /\ after[target].right = pre[target].right
                   /\ after[successorParent] =
                          [pre[successorParent] EXCEPT !.left = pre[successor].right]
           /\ \A c \in Cells \ {target, successor, successorParent} : after[c] = pre[c]
           /\ ~(successor \in TreeCells(after, root))
           /\ (pre = ScenarioTree.heap /\ call.key = 5) =>
                  /\ heap[root].key = 7
                  /\ getKeys(heap, root) = <<1, 3, 4, 7, 8, 9>>

\* delete(5) on the scenario's tree.
C13_Witness ==
    /\ call.op = "delete"
    /\ call.key = 5
    /\ pre = ScenarioTree.heap
    /\ root = ScenarioTree.root
    /\ thrown = NoError
    /\ Cardinality(TreeCells(heap, root)) = 6

\* ---------------------------------------------------------------- structural-splice delete
\* The delete of the revision src/unnamed/part_000, which relinks the
\* successor object into the target's place.  Its constructor, add and
\* getKeys are those modelled above.

\* The search loop: matchParent is undefined (here NULL) until the first
\* iteration; the loop ends with `return null` at a null child.
RECURSIVE SpliceFindMatch(_, _, _, _)
SpliceFindMatch(h, matchParent, match, key) ==
    IF h[match].key = key
    THEN [found |-> TRUE, matchParent |-> matchParent, match |-> match]
    ELSE IF key < h[match].key
         THEN IF h[match].left = NULL
              THEN [found |-> FALSE, matchParent |-> match, match |-> match]
              ELSE SpliceFindMatch(h, match, h[match].left, key)
         ELSE IF h[match].right = NULL
              THEN [found |-> FALSE, matchParent |-> match, match |-> match]
              ELSE SpliceFindMatch(h, match, h[match].right, key)

\* Case 1 (match.key < matchParent.key): 1A, 1B, and 1C with its four
\* assignments in order.
SpliceCase1(h, matchParent, match) ==
    IF h[match].left = NULL
    THEN [h EXCEPT ![matchParent].left = h[match].right]
    ELSE IF h[match].right = NULL
         THEN [h EXCEPT ![matchParent].left = h[match].left]
         ELSE LET s == FindSuccessor(h, match, h[match].right)
                  h1 == [h EXCEPT ![s.successorParent].left = h[s.successor].right]
                  h2 == [h1 EXCEPT ![s.successor].left = h1[match].left]
                  h3 == [h2 EXCEPT ![s.successor].right = h2[match].right]
              IN  [h3 EXCEPT ![matchParent].left = s.successor]

\* Case 2 (matchParent.key < match.key): 2A, 2B, and 2C with its four
\* assignments in order.
SpliceCase2(h, matchParent, match) ==
    IF h[match].left = NULL
    THEN [h EXCEPT ![matchParent].right = h[match].right]
    ELSE IF h[match].right = NULL
         THEN [h EXCEPT ![matchParent].right = h[match].left]
         ELSE LET s == FindSuccessor(h, match, h[match].right)
                  h1 == [h EXCEPT ![s.successorParent].right = h[s.successor].right]
                  h2 == [h1 EXCEPT ![s.successor].left = h1[match].left]
                  h3 == [h2 EXCEPT ![s.successor].right = h2[match].right]
              IN  [h3 EXCEPT ![matchParent].right = s.successor]

\* delete(key) of that revision.  When the match is `this`, matchParent is
\* still undefined and reading matchParent.key raises a TypeError.
spliceDelete(h, this, key) ==
    LET f == SpliceFindMatch(h, NULL, this, key)
    IN  IF ~f.found
        THEN [heap |-> h, thrown |-> NoError, ret |-> <<>>]
        ELSE IF f.matchParent = NULL
             THEN [heap |-> h, thrown |-> TypeError, ret |-> <<>>]
             ELSE [heap |-> IF h[f.match].key < h[f.matchParent].key
                            THEN SpliceCase1(h, f.matchParent, f.match)
                            ELSE SpliceCase2(h, f.matchParent, f.match),
                   thrown |-> NoError,
                   ret |-> <<Pair(h, f.match)>>]

\* The objects reachable from r form a tree: one link leads to every object
\* but r, and none to r.
IsTree(h, r) ==
    LET T == TreeCells(h, r)
        Links(c) == {p \in T : h[p].left = c} \cup {-p : p \in {q \in T : h[q].right = c}}
    IN  /\ Links(r) = {}
        /\ \A c \in T \ {r} : Cardinality(Links(c)) = 1

\* root.delete(k) of that revision
SpliceDelete(k) ==
    LET r == spliceDelete(heap, root, k)
        z == Normalize(r.heap, root, NULL)
    IN  /\ heap' = z.heap
        /\ root' = z.root
        /\ bal' = NULL
        /\ call' = [op |-> "delete", key |-> k, value |-> Undefined]
        /\ thrown' = r.thrown
        /\ ret' = [NoRet EXCEPT !.pair = r.ret]
        /\ pre' = heap
        /\ assoc' = IF r.thrown = NoError THEN [assoc EXCEPT ![k] = NoValue] ELSE assoc
        /\ undo' = <<>>

\* add, delete and getKeys loop on the links: on a structure that is not a
\* tree they need not return, and no call is made on one.
NextSplice ==
    /\ IsTree(heap, root)
    /\ \/ \E k \in Keys : Add(k, KeyArg(k))
       \/ \E k \in Keys : SpliceDelete(k)
       \/ GetKeys

SpecSplice == Init /\ [][NextSplice]_vars

\* The sequence s without its elements equal to k.
Without(s, k) == SelectSeq(s, LAMBDA x : x # k)

\* ---------------------------------------------------------------- C14
\* C14: in the structural-splice revision, delete(k) of a node that is not
\* the root and has both children leaves a finite acyclic tree that keeps
\* the ordering invariant and whose getKeys() is the previous sequence
\* without k.
C14_SpliceKeepsTree ==
    (/\ call.op = "delete"
     /\ call.key \in TreeKeys(pre, root)
     /\ call.key # pre[root].key
     /\ pre[NodeOf(pre, root, call.key)].left # NULL
     /\ pre[NodeOf(pre, root, call.key)].right # NULL)
    => /\ thrown = NoError
       /\ IsTree(heap, root)
       /\ Ordered(heap, root)
       /\ getKeys(heap, root) = Without(getKeys(pre, root), call.key)

\* ---------------------------------------------------------------- C15
\* C15: in the structural-splice revision, delete(k) of the root's key, the
\* root having exactly one child, raises nothing, returns the former root's
\* key and value, and leaves the previous keys without k.
C15_RootChildPromoted ==
    (/\ call.op = "delete"
     /\ call.key = pre[root].key
     /\ (pre[root].left = NULL) # (pre[root].right = NULL))
    => /\ thrown = NoError
       /\ ret.pair = <<Pair(pre, root)>>
       /\ TreeKeys(heap, root) = TreeKeys(pre, root) \ {call.key}

\* ---------------------------------------------------------------- C16
\* C16: the same sequence of insertions applied with push and with add from
\* the same root yields trees of the same shape with the same keys and
\* values; the two raise the duplicate-key error on exactly the same calls,
\* and those calls leave both trees as they were.
C16_PushEqualsAdd ==
    /\ Shape(heap, root) = Shape(heap, bal)
    /\ TreeCells(heap, root) \cap TreeCells(heap, bal) = {}
    /\ call.op = "add+push" =>
           /\ call.pushed = thrown
           /\ (thrown = DuplicateKey) = (call.key \in TreeKeys(pre, root))
           /\ thrown = DuplicateKey => heap = pre

\* A duplicate refused below the root, and before it an insertion two or
\* more links below the root.
C16_Witness ==
    /\ call.op = "add+push"
    /\ thrown = DuplicateKey
    /\ call.pushed = DuplicateKey
    /\ call.key # heap[bal].key
    /\ Height(heap, bal) >= 3

====
